---------------------------- MODULE Spec2Model ----------------------------
(***************************************************************************)
(* Logistic growth visualisations: the closed form x_t, the integration    *)
(* constant K_prime = x0 / (K - x0), the scene script (01-logistic_growth) *)
(* and the frame-update script (02-logistic_growth_matplotlib).            *)
(*                                                                         *)
(* Numbers.  A value is a pair <<n, d>>: the rational n/d in lowest terms  *)
(* with d > 0, or one of the three IEEE-754 special values numpy produces  *)
(* instead of raising: <<1, 0>> = +inf, <<-1, 0>> = -inf, <<0, 0>> = NaN.  *)
(* Finite arithmetic is exact (no rounding): the model states what the     *)
(* formulas compute over the reals, plus numpy's inf/NaN propagation.      *)
(*                                                                         *)
(* Time and rate.  Sample times are whole ticks and the growth rate is a   *)
(* whole number of (ln 2)/tick, so that a * t is a whole multiple of ln 2  *)
(* and np.exp(a * t) is exactly the power of two Exp(a * t).               *)
(***************************************************************************)
EXTENDS Integers, Sequences, FiniteSets, TLC

\* Number of time samples of the grid t (np.linspace(0, 100, 500) has 500).
NumSamples == 4

VARIABLES
    script,              \* which program runs: "eval", "scene" or "anim"
    pc,                  \* position of the running program
    ev,                  \* evaluator inputs [K, x0, a, c]
    ev_curve,            \* x_t over t[1..Len] for (K, x0)
    ev_scaled,           \* x_t over t[1..Len] for (c*K, c*x0)
    args,                \* arguments given to LogisticGrowth.__init__
    K,                   \* self.K / module-level K
    a,                   \* self.a / module-level a
    initial_conditions,  \* self.initial_conditions / module-level array
    K_line,              \* height of the dashed carrying-capacity line
    colors,              \* the palette: rainbow(linspace(0, 1, n))
    colors_taken,        \* number of next(colors) calls on the it.cycle
    K_prime,             \* construct()'s local K_prime, captured by the lambdas
    curves,              \* construct()'s list of plotted curves
    shown,               \* what self.play(Create(..)) has put on screen
    lines,               \* the frame-update script's Line2D list
    frame,               \* next frame FuncAnimation hands to update
    last                 \* the last callback FuncAnimation ran and its outcome

vars == <<script, pc, ev, ev_curve, ev_scaled, args, K, a, initial_conditions,
          K_line, colors, colors_taken, K_prime, curves, shown, lines, frame, last>>

---------------------------------------------------------------------------
\* float arithmetic: exact on finite values, IEEE-754 on inf and NaN

PosInf == <<1, 0>>
NegInf == <<-1, 0>>
NaN == <<0, 0>>
Zero == <<0, 1>>
One == <<1, 1>>

Abs(n) == IF n < 0 THEN -n ELSE n
Sign(n) == IF n < 0 THEN -1 ELSE IF n > 0 THEN 1 ELSE 0

RECURSIVE Gcd(_, _)
Gcd(m, n) == IF n = 0 THEN m ELSE Gcd(n, m % n)

\* n/d in lowest terms with a positive denominator; d = 0 gives inf or NaN.
Norm(n, d) ==
    IF d = 0 THEN <<Sign(n), 0>>
    ELSE LET g == Gcd(Abs(n), Abs(d))
         IN  <<Sign(d) * (n \div g), Abs(d) \div g>>

Whole(n) == <<n, 1>>
IsNaN(x) == x = NaN
IsInf(x) == x = PosInf \/ x = NegInf
IsFinite(x) == x[2] > 0

Neg(x) == <<-x[1], x[2]>>

Mul(x, y) == Norm(x[1] * y[1], x[2] * y[2])

\* 1/x; 1/0 is +inf (the zero of K - x0 is +0.0), 1/inf is 0.
Recip(x) ==
    IF x[1] = 0 THEN (IF x[2] = 0 THEN NaN ELSE PosInf)
    ELSE IF x[1] < 0 THEN <<-x[2], -x[1]>>
    ELSE <<x[2], x[1]>>

\* numpy float64 true division: a zero divisor gives inf or NaN, never raises.
Div(x, y) == Mul(x, Recip(y))

Add(x, y) ==
    IF IsNaN(x) \/ IsNaN(y) THEN NaN
    ELSE IF IsInf(x) /\ IsInf(y) THEN (IF x = y THEN x ELSE NaN)
    ELSE IF IsInf(x) THEN x
    ELSE IF IsInf(y) THEN y
    ELSE Norm(x[1] * y[2] + y[1] * x[2], x[2] * y[2])

Sub(x, y) == Add(x, Neg(y))

\* x < y; every comparison with NaN is false.
Less(x, y) ==
    /\ ~IsNaN(x) /\ ~IsNaN(y)
    /\ x # y
    /\ IF IsInf(x) \/ IsInf(y) THEN x = NegInf \/ y = PosInf
       ELSE x[1] * y[2] < y[1] * x[2]

\* x >= y; every comparison with NaN is false.
GE(x, y) == ~IsNaN(x) /\ ~IsNaN(y) /\ ~Less(x, y)

RECURSIVE Pow2(_)
Pow2(n) == IF n = 0 THEN 1 ELSE 2 * Pow2(n - 1)

\* faulty variant: the sign of the exponent lost
ExpNegated(n) == IF n >= 0 THEN <<1, Pow2(n)>> ELSE <<Pow2(-n), 1>>

\* np.exp at n * ln 2
Exp(n) == IF n >= 0 THEN <<Pow2(n), 1>> ELSE <<1, Pow2(-n)>>

\* np.linspace(lo, hi, n)[i], i from 1
LinspaceAt(lo, hi, n, i) ==
    IF n = 1 THEN lo
    ELSE Add(lo, Mul(Whole(i - 1), Div(Sub(hi, lo), Whole(n - 1))))

linspace(lo, hi, n) == [i \in 1..n |-> LinspaceAt(lo, hi, n, i)]

---------------------------------------------------------------------------
\* the computational core

\* the time samples, in ticks
t == [j \in 1..NumSamples |-> j - 1]

\* t[:n]
Prefix(s, n) == SubSeq(s, 1, n)

\* the denominator of x_t: 1 + K_prime * exp(a*t)
Denominator(tt, kp, rate) == Add(One, Mul(kp, Exp(rate * tt)))

\* faulty variant: the factor K dropped from the numerator
x_t_without_K(tt, k, kp, rate) ==
    Div(Mul(kp, Exp(rate * tt)), Denominator(tt, kp, rate))

x_t(tt, k, kp, rate) ==
    Div(Mul(Mul(kp, k), Exp(rate * tt)), Denominator(tt, kp, rate))

\* x_t on an array of times
x_t_array(ts, k, kp, rate) == [j \in 1..Len(ts) |-> x_t(ts[j], k, kp, rate)]

\* faulty variant: x0 / (x0 - K)
IntegrationConstantFlipped(x0, k) == Div(x0, Sub(x0, k))

\* faulty variant: the carrying capacity taken to be 1
IntegrationConstantUnitK(x0, k) == Div(x0, Sub(One, x0))

\* K_prime = x0 / (K - x0)
IntegrationConstant(x0, k) == Div(x0, Sub(k, x0))

---------------------------------------------------------------------------
\* inputs

KValues == {Whole(1), Whole(2), <<3, 2>>}
X0Values == {<<1, 2>>, Whole(1), <<3, 2>>, Whole(2), Whole(3)}
EvalRates == {-1, 0, 1, 2}
Scales == {<<1, 2>>, Whole(2), Whole(3)}

---------------------------------------------------------------------------
\* the evaluator applied along the time grid

NoArgs == [K |-> Zero, a |-> 0, initial_conditions |-> <<>>]

DriverIdle ==
    /\ args = NoArgs
    /\ K = Zero /\ a = 0 /\ initial_conditions = <<>>
    /\ K_line = NaN
    /\ colors = <<>> /\ colors_taken = 0
    /\ K_prime = NaN
    /\ curves = <<>> /\ shown = <<>>
    /\ lines = <<>> /\ frame = 0
    /\ last = [op |-> "none", frame |-> 0, reset |-> FALSE]

driverVars == <<args, K, a, initial_conditions, K_line, colors, colors_taken,
                K_prime, curves, shown, lines, frame, last>>

InitEval ==
    /\ script = "eval"
    /\ pc = "eval"
    /\ ev \in [K : KValues, x0 : X0Values, a : EvalRates, c : Scales]
    /\ ev_curve = <<>>
    /\ ev_scaled = <<>>
    /\ DriverIdle

\* evaluate the next time sample for (K, x0) and for (c*K, c*x0)
Evaluate ==
    /\ script = "eval"
    /\ Len(ev_curve) < NumSamples
    /\ LET tt == t[Len(ev_curve) + 1]
           cK == Mul(ev.c, ev.K)
           cx0 == Mul(ev.c, ev.x0)
       IN  /\ ev_curve' = Append(ev_curve,
                 x_t(tt, ev.K, IntegrationConstant(ev.x0, ev.K), ev.a))
           /\ ev_scaled' = Append(ev_scaled,
                 x_t(tt, cK, IntegrationConstant(cx0, cK), ev.a))
    /\ UNCHANGED <<script, pc, ev>>
    /\ UNCHANGED driverVars

NextEval == Evaluate

SpecEval == InitEval /\ [][NextEval]_vars

---------------------------------------------------------------------------
\* configuration of the two scripts

\* K = 1.0
DefaultK == 1
\* a = 0.5 (scene), a = 0.1 (frame update): one rate unit of the model
DefaultRate == 1
\* np.linspace(0.1, 2.0, 35)
DefaultCount == 35
DefaultIC == linspace(<<1, 10>>, Whole(2), DefaultCount)

DriverKValues == {Whole(1), Whole(2)}
DriverRates == {1, 2}
X0List == <<(<<1, 2>>), Whole(1), <<3, 2>>, Whole(2)>>

RECURSIVE Ascending(_)
Ascending(S) ==
    IF S = {} THEN <<>>
    ELSE LET m == CHOOSE i \in S : \A j \in S : i <= j
         IN  <<X0List[m]>> \o Ascending(S \ {m})

\* ascending families of initial conditions, the default family among them
Families ==
    {Ascending(S) : S \in (SUBSET (1..Len(X0List))) \ {{}}} \cup {DefaultIC}

\* plt.cm.rainbow(np.linspace(0, 1, n)): entry i is the colour at position
\* floor(256 * x) of the 256-entry table, x = 1 mapping to the last position
rainbow(n) ==
    [i \in 1..n |->
        IF n = 1 THEN 0
        ELSE IF i = n THEN 255
        ELSE (256 * (i - 1)) \div (n - 1)]

\* faulty variant: a palette of fixed length
PaletteFixed(ic) == rainbow(2)

\* the palette built for a family: one entry per initial condition
Palette(ic) == rainbow(Len(ic))

\* next(colors) on it.cycle(palette) after `taken` earlier calls
next_color(palette, taken) == palette[(taken % Len(palette)) + 1]

NoLast == [op |-> "none", frame |-> 0, reset |-> FALSE]

evalVars == <<ev, ev_curve, ev_scaled>>
sceneVars == <<args, K_line, colors_taken, K_prime, curves, shown>>
animVars == <<lines, frame, last>>

EvalIdle ==
    /\ ev = [K |-> Zero, x0 |-> Zero, a |-> 0, c |-> Zero]
    /\ ev_curve = <<>>
    /\ ev_scaled = <<>>

---------------------------------------------------------------------------
\* 01-logistic_growth.py: the scene

\* after LogisticGrowth(K, a, initial_conditions)
InitScene ==
    /\ script = "scene"
    /\ pc = "constructed"
    /\ args \in [K : DriverKValues, a : DriverRates, initial_conditions : Families]
    /\ K = args.K
    /\ a = args.a
    /\ initial_conditions = args.initial_conditions
    /\ K_line = NaN
    /\ colors = <<>> /\ colors_taken = 0
    /\ K_prime = NaN
    /\ curves = <<>> /\ shown = <<>>
    /\ lines = <<>> /\ frame = 0 /\ last = NoLast
    /\ EvalIdle

\* axes.plot(f, x_range): the curve's points are sampled from f when the
\* curve is built (x_range is sampled on the grid t)
plot(kp, k, rate, color) ==
    [color |-> color, points |-> x_t_array(t, k, kp, rate)]

\* faulty variant: Create calls the lambda again, reading K_prime as it is by then
RenderedLazily(curve, kp_now, k, rate) == x_t_array(t, k, kp_now, rate)

\* what Create(curve) draws: the points the curve was built with; the
\* lambda, whose K_prime is by then `kp_now`, is not called again
Rendered(curve, kp_now, k, rate) == curve.points

\* construct(), up to the loop: the parameters, the axes, the K line, the
\* colour cycle
ConstructSetup ==
    /\ script = "scene" /\ pc = "constructed"
    /\ K' = Whole(DefaultK)
    /\ a' = DefaultRate
    /\ initial_conditions' = DefaultIC
    /\ K_line' = K'
    /\ colors' = Palette(initial_conditions')
    /\ colors_taken' = 0
    /\ pc' = "loop"
    /\ UNCHANGED <<script, args, K_prime, curves, shown>>
    /\ UNCHANGED evalVars /\ UNCHANGED animVars

\* one iteration of `for x0 in self.initial_conditions`
PlotCurve ==
    /\ script = "scene" /\ pc = "loop"
    /\ Len(curves) < Len(initial_conditions)
    /\ LET x0 == initial_conditions[Len(curves) + 1]
       IN  /\ K_prime' = IntegrationConstant(x0, K)
           /\ curves' = Append(curves,
                 plot(K_prime', K, a, next_color(colors, colors_taken)))
    /\ colors_taken' = colors_taken + 1
    /\ UNCHANGED <<script, pc, args, K, a, initial_conditions, K_line, colors, shown>>
    /\ UNCHANGED evalVars /\ UNCHANGED animVars

\* self.play(Create(axes)); self.play(Create(axes_labels));
\* self.play(Create(K_line))
PlayFrame ==
    /\ script = "scene" /\ pc = "loop"
    /\ Len(curves) = Len(initial_conditions)
    /\ shown' = <<[what |-> "axes"], [what |-> "axes_labels"],
                  [what |-> "K_line", y |-> K_line]>>
    /\ pc' = "curves"
    /\ UNCHANGED <<script, args, K, a, initial_conditions, K_line, colors,
                   colors_taken, K_prime, curves>>
    /\ UNCHANGED evalVars /\ UNCHANGED animVars

ShownCurves == SelectSeq(shown, LAMBDA s : s.what = "curve")

\* one iteration of `for curve in curves: self.play(Create(curve))`
PlayCurve ==
    /\ script = "scene" /\ pc = "curves"
    /\ Len(ShownCurves) < Len(curves)
    /\ LET curve == curves[Len(ShownCurves) + 1]
       IN  shown' = Append(shown,
               [what |-> "curve", color |-> curve.color,
                points |-> Rendered(curve, K_prime, K, a)])
    /\ UNCHANGED <<script, pc, args, K, a, initial_conditions, K_line, colors,
                   colors_taken, K_prime, curves>>
    /\ UNCHANGED evalVars /\ UNCHANGED animVars

\* the closing self.wait(2)
SceneEnd ==
    /\ script = "scene" /\ pc = "curves"
    /\ Len(ShownCurves) = Len(curves)
    /\ pc' = "done"
    /\ UNCHANGED <<script, args, K, a, initial_conditions, K_line, colors,
                   colors_taken, K_prime, curves, shown>>
    /\ UNCHANGED evalVars /\ UNCHANGED animVars

---------------------------------------------------------------------------
\* 02-logistic_growth_matplotlib.py: the frame-update animation

\* for color in colors: (line,) = ax.plot([], [], color=color)
NewLines(palette) ==
    [i \in 1..Len(palette) |-> [color |-> palette[i], xdata |-> <<>>, ydata |-> <<>>]]

\* the module-level setup, up to the creation of FuncAnimation
InitAnim ==
    /\ script = "anim"
    /\ pc = "created"
    /\ K \in DriverKValues
    /\ a \in DriverRates
    /\ initial_conditions \in Families
    /\ colors = Palette(initial_conditions)
    /\ lines = NewLines(colors)
    /\ frame = 0
    /\ last = NoLast
    /\ args = NoArgs
    /\ K_line = K
    /\ colors_taken = 0
    /\ K_prime = NaN
    /\ curves = <<>> /\ shown = <<>>
    /\ EvalIdle

\* init(): line.set_data([], []) for every line
init(ls) == [i \in 1..Len(ls) |-> [ls[i] EXCEPT !.xdata = <<>>, !.ydata = <<>>]]

\* faulty variant: the new samples appended to the line's data instead of set
SetDataAppended(line, f, x0) ==
    [line EXCEPT !.xdata = line.xdata \o Prefix(t, f),
                 !.ydata = line.ydata \o
                     x_t_array(Prefix(t, f), K, IntegrationConstant(x0, K), a)]

\* lines[i].set_data(t[:frame], x_t(t[:frame], K, K_prime, a))
SetData(line, f, x0) ==
    [line EXCEPT !.xdata = Prefix(t, f),
                 !.ydata = x_t_array(Prefix(t, f), K, IntegrationConstant(x0, K), a)]

\* faulty variant: np.any in place of np.all
AnyReached(f) ==
    \E i \in 1..Len(initial_conditions) :
        GE(x_t(t[f + 1], K, IntegrationConstant(initial_conditions[i], K), a), K)

\* np.all([x_t(t[frame], K, x0 / (K - x0), a) >= K for x0 in initial_conditions])
AllReached(f) ==
    \A i \in 1..Len(initial_conditions) :
        GE(x_t(t[f + 1], K, IntegrationConstant(initial_conditions[i], K), a), K)

\* frames=len(t)
FrameCount == Len(t)

\* FuncAnimation draws its first frame: init_func
AnimStart ==
    /\ script = "anim" /\ pc = "created"
    /\ lines' = init(lines)
    /\ frame' = 0
    /\ last' = [op |-> "init", frame |-> 0, reset |-> FALSE]
    /\ pc' = "running"
    /\ UNCHANGED <<script, K, a, initial_conditions, colors>>
    /\ UNCHANGED evalVars /\ UNCHANGED sceneVars /\ UNCHANGED K_line

\* update(frame)
update ==
    /\ script = "anim" /\ pc = "running"
    /\ frame < FrameCount
    /\ LET set == [i \in 1..Len(initial_conditions) |->
                      SetData(lines[i], frame, initial_conditions[i])]
       IN  lines' = IF AllReached(frame) THEN init(set) ELSE set
    /\ last' = [op |-> "update", frame |-> frame, reset |-> AllReached(frame)]
    /\ frame' = frame + 1
    /\ UNCHANGED <<script, pc, K, a, initial_conditions, colors>>
    /\ UNCHANGED evalVars /\ UNCHANGED sceneVars /\ UNCHANGED K_line

\* repeat=True: the frames are exhausted, init_func runs and they start over
AnimRepeat ==
    /\ script = "anim" /\ pc = "running"
    /\ frame = FrameCount
    /\ lines' = init(lines)
    /\ frame' = 0
    /\ last' = [op |-> "init", frame |-> 0, reset |-> FALSE]
    /\ UNCHANGED <<script, pc, K, a, initial_conditions, colors>>
    /\ UNCHANGED evalVars /\ UNCHANGED sceneVars /\ UNCHANGED K_line

---------------------------------------------------------------------------

Init == InitScene \/ InitAnim

Next ==
    \/ ConstructSetup
    \/ PlotCurve
    \/ PlayFrame
    \/ PlayCurve
    \/ SceneEnd
    \/ AnimStart
    \/ update
    \/ AnimRepeat

Spec == Init /\ [][Next]_vars

---------------------------------------------------------------------------
\* properties of the evaluator (checked under SpecEval)

Positive(x) == Less(Zero, x)

EvalKPrime == Div(ev.x0, Sub(ev.K, ev.x0))

\* C1: round trip at t = 0.  For K > 0, any rate a and x0 > 0 with x0 # K,
\* x_t(0, K, x0/(K - x0), a) is x0 itself; with K = 1 and x0 = 1/2 the
\* integration constant is 1 and the value at t = 0 is 1/2.
C1_RoundTripAtZero ==
    (script = "eval" /\ Len(ev_curve) >= 1 /\ Positive(ev.K) /\ Positive(ev.x0)
        /\ ev.x0 # ev.K)
    => /\ t[1] = 0
       /\ ev_curve[1] = ev.x0
       /\ (ev.K = One /\ ev.x0 = <<1, 2>>)
            => (IntegrationConstant(ev.x0, ev.K) = One /\ ev_curve[1] = <<1, 2>>)

C1_Witness ==
    /\ script = "eval"
    /\ ev.K = Whole(2) /\ ev.x0 = Whole(3) /\ ev.a = -1
    /\ Len(ev_curve) = NumSamples
    /\ ev_curve[1] = Whole(3)

\* C2: for K > 0, a > 0 and 0 < x0 < K the sampled curve is strictly
\* increasing in t, stays in [0, K), and approaches K from below: its
\* distance to K is below K / (K_prime * exp(a*t)), which tends to 0.
C2_GrowthBelowCapacity ==
    (script = "eval" /\ Positive(ev.K) /\ ev.a > 0 /\ Positive(ev.x0)
        /\ Less(ev.x0, ev.K))
    => /\ \A i \in 1..Len(ev_curve) :
            /\ GE(ev_curve[i], Zero)
            /\ Less(ev_curve[i], ev.K)
            /\ Less(Mul(Mul(Sub(ev.K, ev_curve[i]), EvalKPrime), Exp(ev.a * t[i])),
                    ev.K)
       /\ \A i, j \in 1..Len(ev_curve) :
            t[i] < t[j] => Less(ev_curve[i], ev_curve[j])

C2_Witness ==
    /\ script = "eval"
    /\ ev.K = Whole(2) /\ ev.x0 = <<1, 2>> /\ ev.a = 1
    /\ Len(ev_curve) = NumSamples
    /\ Less(ev_curve[1], ev_curve[2])
    /\ Less(ev_curve[NumSamples], ev.K)

\* C3: for K > 0, a > 0 and x0 > K the integration constant is negative
\* (-3 for K = 1, x0 = 3/2), the denominator 1 + K_prime*exp(a*t) stays
\* negative on every sample (never zero, no change of sign), and the sampled
\* curve is strictly decreasing in t, stays >= K and approaches K from above:
\* (x - K) * (exp(a*t) - 1) < K.
C3_DecayAboveCapacity ==
    (script = "eval" /\ Positive(ev.K) /\ ev.a > 0 /\ Less(ev.K, ev.x0))
    => /\ Less(EvalKPrime, Zero)
       /\ (ev.K = One /\ ev.x0 = <<3, 2>>) => EvalKPrime = Whole(-3)
       /\ \A i \in 1..Len(ev_curve) :
            /\ Less(Denominator(t[i], EvalKPrime, ev.a), Zero)
            /\ IsFinite(ev_curve[i])
            /\ GE(ev_curve[i], ev.K)
            /\ Less(Mul(Sub(ev_curve[i], ev.K), Sub(Exp(ev.a * t[i]), One)), ev.K)
       /\ \A i, j \in 1..Len(ev_curve) :
            t[i] < t[j] => Less(ev_curve[j], ev_curve[i])

C3_Witness ==
    /\ script = "eval"
    /\ ev.K = One /\ ev.x0 = <<3, 2>> /\ ev.a = 1
    /\ Len(ev_curve) = NumSamples
    /\ ev_curve[1] = <<3, 2>>
    /\ Less(ev_curve[NumSamples], ev_curve[1])
    /\ Less(ev.K, ev_curve[NumSamples])

\* C6: scale symmetry.  For c > 0, K > 0 and x0 # K, scaling K and x0 by c
\* leaves K_prime unchanged, multiplies every sample by c and leaves the
\* normalised sample x/K unchanged, whatever the rate and the time.
C6_ScaleSymmetry ==
    (script = "eval" /\ Positive(ev.c) /\ Positive(ev.K) /\ ev.x0 # ev.K)
    => /\ IntegrationConstant(Mul(ev.c, ev.x0), Mul(ev.c, ev.K))
            = Div(ev.x0, Sub(ev.K, ev.x0))
       /\ Len(ev_scaled) = Len(ev_curve)
       /\ \A i \in 1..Len(ev_curve) :
            /\ ev_scaled[i] = Mul(ev.c, ev_curve[i])
            /\ Div(ev_scaled[i], Mul(ev.c, ev.K)) = Div(ev_curve[i], ev.K)

C6_Witness ==
    /\ script = "eval"
    /\ ev.c = Whole(3) /\ ev.K = <<3, 2>> /\ ev.x0 = <<1, 2>> /\ ev.a = 2
    /\ Len(ev_curve) = NumSamples
    /\ IsFinite(ev_curve[NumSamples])
    /\ ev_scaled[NumSamples] = Mul(Whole(3), ev_curve[NumSamples])
    /\ ev_scaled[NumSamples] # ev_curve[NumSamples]

---------------------------------------------------------------------------
\* properties of the two scripts (checked under Spec)

Distinct(seq) == \A i, j \in 1..Len(seq) : i # j => seq[i] # seq[j]

\* the samples of the curve of initial condition x0 over the times ts
CurveOf(x0, ts) == x_t_array(ts, K, IntegrationConstant(x0, K), a)

HasSpecial(seq) == \E j \in 1..Len(seq) : ~IsFinite(seq[j])

\* C4: an initial condition equal to K makes the derivation of K_prime
\* raise: the curve loop does not get past it, update does not return, and
\* no curve or line ever holds a NaN or an infinite value.
C4_DegenerateInputRaises ==
    /\ \A i \in 1..Len(initial_conditions) :
        initial_conditions[i] = K
        => /\ script = "scene" => Len(curves) < i
           /\ script = "anim" => last.op # "update"
    /\ \A i \in 1..Len(curves) : ~HasSpecial(curves[i].points)
    /\ \A i \in 1..Len(lines) : ~HasSpecial(lines[i].ydata)

\* C5: the palette has one entry per initial condition, the entries are
\* pairwise different, the initial conditions are in ascending order, and
\* the curve (scene) or line (frame update) of the i-th initial condition
\* carries palette entry i; the scene's colour cycle is advanced once per
\* curve and never more often than the palette is long.
C5_ColourAssignment ==
    (script \in {"scene", "anim"} /\ pc # "constructed")
    => /\ Len(colors) = Len(initial_conditions)
       /\ Distinct(colors)
       /\ \A i, j \in 1..Len(initial_conditions) :
            i < j => Less(initial_conditions[i], initial_conditions[j])
       /\ script = "scene" =>
            /\ colors_taken = Len(curves)
            /\ colors_taken <= Len(colors)
            /\ \A i \in 1..Len(curves) :
                /\ curves[i].color = colors[i]
                /\ curves[i].points = CurveOf(initial_conditions[i], t)
            /\ \A i \in 1..Len(ShownCurves) : ShownCurves[i].color = colors[i]
       /\ script = "anim" =>
            /\ Len(lines) = Len(initial_conditions)
            /\ \A i \in 1..Len(lines) :
                /\ lines[i].color = colors[i]
                /\ (last.op = "update" /\ ~last.reset)
                    => lines[i].ydata
                        = CurveOf(initial_conditions[i], Prefix(t, last.frame))

C5_Witness ==
    /\ script = "scene" /\ pc = "done"
    /\ Len(curves) = DefaultCount
    /\ colors_taken = DefaultCount
    /\ curves[1].color = 0
    /\ curves[DefaultCount].color = 255
    /\ curves[2].color # curves[3].color

\* C7: construct() builds one curve per initial condition, in order, and
\* the values of the i-th curve, as built and as drawn by Create, are those
\* of K_prime = x0_i / (K - x0_i): the curve starts at x0_i.  That holds
\* although every lambda reads the one variable K_prime, which after the
\* loop holds the constant of the last initial condition.
C7_CurvePerInitialCondition ==
    (script = "scene" /\ pc # "constructed")
    => /\ Len(curves) <= Len(initial_conditions)
       /\ pc \in {"curves", "done"} => Len(curves) = Len(initial_conditions)
       /\ pc = "done" => Len(ShownCurves) = Len(initial_conditions)
       /\ \A i \in 1..Len(curves) :
            /\ curves[i].points = CurveOf(initial_conditions[i], t)
            /\ curves[i].points[1] = initial_conditions[i]
       /\ \A i \in 1..Len(ShownCurves) :
            /\ ShownCurves[i].points = CurveOf(initial_conditions[i], t)
            /\ ShownCurves[i].points[1] = initial_conditions[i]

C7_Witness ==
    /\ script = "scene" /\ pc = "done"
    /\ Len(ShownCurves) = DefaultCount
    /\ K_prime = IntegrationConstant(initial_conditions[DefaultCount], K)
    /\ ShownCurves[1].points[1] = <<1, 10>>
    /\ ShownCurves[1].points # ShownCurves[DefaultCount].points

\* C8: the scene renders the family of its constructor arguments: the K
\* line is at the given K and one curve per given initial condition is
\* built with the given K and a.
C8_ConstructorArgumentsRendered ==
    (script = "scene" /\ pc = "done")
    => /\ K_line = args.K
       /\ Len(curves) = Len(args.initial_conditions)
       /\ \A i \in 1..Len(curves) :
            curves[i].points
              = x_t_array(t, args.K,
                    IntegrationConstant(args.initial_conditions[i], args.K), args.a)

\* C9: after update(f), when the reset did not fire, line i holds the first
\* f time samples t[0..f-1] and x_t of them for initial_conditions[i],
\* whatever ran before (init, earlier frames, repeats); f is an index of t,
\* frame 0 leaves the lines empty and the last sample of t is never shown.
C9_FrameUpdateStateless ==
    (script = "anim" /\ last.op = "update")
    => /\ last.frame \in 0..(Len(t) - 1)
       /\ frame = last.frame + 1
       /\ ~last.reset =>
            \A i \in 1..Len(initial_conditions) :
                /\ Len(lines[i].xdata) = last.frame
                /\ \A j \in 1..last.frame : lines[i].xdata[j] = t[j]
                /\ lines[i].ydata
                    = CurveOf(initial_conditions[i], Prefix(t, last.frame))
                /\ last.frame = 0 => (lines[i].xdata = <<>> /\ lines[i].ydata = <<>>)
                /\ \A j \in 1..Len(lines[i].xdata) : lines[i].xdata[j] # t[Len(t)]

C9_Witness ==
    /\ script = "anim" /\ last.op = "update" /\ ~last.reset
    /\ last.frame = Len(t) - 1
    /\ Len(initial_conditions) >= 2
    /\ Len(lines[1].ydata) = Len(t) - 1
    /\ lines[1].ydata[1] = initial_conditions[1]
    /\ lines[1].ydata # lines[2].ydata

\* C10: update(frame) clears every line (calls init) exactly when every
\* curve's value at t[frame] is >= K, which is exactly when every initial
\* condition is above K; so with an initial condition in (0, K) in the
\* family no frame fires the reset and update leaves the lines filled.
C10_ResetCondition ==
    (script = "anim" /\ last.op = "update")
    => /\ last.reset <=>
            \A i \in 1..Len(initial_conditions) :
                GE(x_t(t[last.frame + 1], K,
                       Div(initial_conditions[i], Sub(K, initial_conditions[i])), a),
                   K)
       /\ last.reset <=>
            \A i \in 1..Len(initial_conditions) : Less(K, initial_conditions[i])
       /\ last.reset =>
            \A i \in 1..Len(lines) : lines[i].xdata = <<>> /\ lines[i].ydata = <<>>
       /\ (\E i \in 1..Len(initial_conditions) :
              Positive(initial_conditions[i]) /\ Less(initial_conditions[i], K))
          => /\ ~last.reset
             /\ \A i \in 1..Len(lines) : Len(lines[i].ydata) = last.frame

C10_Witness ==
    /\ script = "anim" /\ last.op = "update" /\ last.reset
    /\ last.frame = Len(t) - 1
    /\ Len(initial_conditions) = 2
    /\ \A i \in 1..Len(lines) : lines[i].ydata = <<>>

===========================================================================
